---- MODULE Spec2Model ----
(***************************************************************************)
(* Model of the flotta device worker's HTTP client                         *)
(* (internal/client/http/client.go): the certificate rotation guard        *)
(* (getClient), the transport builder and its middleware chain             *)
(* (createTransport, createTLSConfig) and the envelope operations (Enrol,   *)
(* Register, Heartbeat, GetConfiguration).                                  *)
(***************************************************************************)
EXTENDS Integers, Sequences, FiniteSets, TLC

(***************************************************************************)
(* Bounds                                                                  *)
(***************************************************************************)
\* callers that may use one Client concurrently
NumCallers == 2
\* the certificate manager rotates between the materials 0..MaxMaterial
MaxMaterial == 2
\* longest middleware list given to createTransport in SpecCompose
MaxWrappers == 3
\* wrappers are drawn from 1..NumWrapperIds
NumWrapperIds == 3

Callers == 1..NumCallers
MaterialIds == 0..MaxMaterial
WrapperIds == 1..NumWrapperIds

(***************************************************************************)
(* The certificate manager (external): the material it holds and the       *)
(* signature it reports for it.                                            *)
(***************************************************************************)
\* Signature(): a byte sequence that identifies the material.  Material 0
\* stands for a manager that reports an empty (or nil) signature.
SigOf(m) ==
    IF m = 0 THEN << >>
    ELSE IF m <= 2 THEN << m >>
    ELSE << m, m >>

\* the type of the private key GetCertificates returns
KeyOf(m) ==
    CASE m % 3 = 0 -> "ecdsa"
      [] m % 3 = 1 -> "rsa"
      [] OTHER     -> "other"

\* GetCertificates(): the snapshot (CA roots, certificate, key) of material m
GetCertificates(m) == [id |-> m, key |-> KeyOf(m)]

(***************************************************************************)
(* bytes.Equal: same length and the same byte at every index (a nil and an *)
(* empty slice both have length 0 and are equal).                          *)
(***************************************************************************)
BytesEqual(a, b) ==
    /\ Len(a) = Len(b)
    /\ \A i \in 1..Len(a) : a[i] = b[i]

\* a guard that compares only the lengths of the two signatures
SignatureChangedLen(stored, current) == Len(stored) # Len(current)

\* getClient, line 218: the rebuild condition
SignatureChanged(stored, current) == ~BytesEqual(stored, current)

(***************************************************************************)
(* createTLSConfig                                                         *)
(***************************************************************************)
\* the PEM block type written for the private key; a key that is neither
\* ECDSA nor RSA leaves the buffer empty
PrivKeyPEM(key) ==
    CASE key = "ecdsa" -> "EC PRIVATE KEY"
      [] key = "rsa"   -> "RSA PRIVATE KEY"
      [] OTHER         -> ""

\* tls.X509KeyPair fails when no private key block is found
X509KeyPairOk(snapshot) == PrivKeyPEM(snapshot.key) # ""

\* createTLSConfig: (config, err).  config is nil on error.
NoTLS == [id |-> -1, key |-> "none"]
createTLSConfig(m) ==
    LET snapshot == GetCertificates(m)
    IN  IF X509KeyPairOk(snapshot)
        THEN [config |-> snapshot, err |-> FALSE]
        ELSE [config |-> NoTLS, err |-> TRUE]

(***************************************************************************)
(* createTransport: the base transport and the middleware chain            *)
(***************************************************************************)
NilTransport == [kind |-> "nil"]
BaseTransport(tlsConfig) == [kind |-> "base", tls |-> tlsConfig]
\* transportWrapper w applied to transport t
Wrap(w, t) == [kind |-> "wrap", by |-> w, inner |-> t]

\* the loop body indexing the list from the other end, as a loop that runs
\* forwards would
LoopStepMirror(wrappers, i, result) == Wrap(wrappers[Len(wrappers) + 1 - i], result)

\* one iteration of the loop of createTransport, written with 1-based
\* indices: result = transportWrappers[i](result)
LoopStep(wrappers, i, result) == Wrap(wrappers[i], result)

\* for i := len(wrappers)-1; i >= 0; i-- { result = wrappers[i](result) }
RECURSIVE WrapLoop(_, _, _)
WrapLoop(wrappers, i, result) ==
    IF i < 1 THEN result
    ELSE WrapLoop(wrappers, i - 1, LoopStep(wrappers, i, result))

WrapAll(wrappers, base) == WrapLoop(wrappers, Len(wrappers), base)

\* createTransport: (result, err); result is built even when err is set
createTransport(wrappers, m) ==
    LET tc == createTLSConfig(m)
    IN  [result |-> WrapAll(wrappers, BaseTransport(tc.config)),
         err    |-> tc.err]

(***************************************************************************)
(* Replies of the backend and the response decoder                         *)
(***************************************************************************)
\* longest `certificate` string of a reply
MaxStrLen == 2
\* the device profiles an event can set
NumProfiles == 2
\* the metric values an evaluator tells apart
MaxValues == 2
\* bytes a `certificate` string is made of ('-' and 'B')
StrBytes == {45, 66}
Strings == UNION { [1..n -> StrBytes] : n \in 0..MaxStrLen }

StatusCodes == {200, 201, 399, 400, 500, 503}
FieldKeys == {"certificate", "configuration"}

\* a JSON value found under a key of the content object
LeafTypes == {"absent", "null", "string", "number", "object"}
Leaf(t, s) == [t |-> t, s |-> s]
Leaves ==
    { Leaf(t, << >>) : t \in LeafTypes } \cup { Leaf("string", s) : s \in Strings }

\* the JSON value of the `content` key of the envelope
ContentTypes == {"absent", "null", "string", "number", "array", "object"}
NoFields == [k \in FieldKeys |-> Leaf("absent", << >>)]
JsonContents ==
    { [t |-> t, f |-> NoFields] : t \in ContentTypes \ {"object"} }
    \cup { [t |-> "object", f |-> f] : f \in [FieldKeys -> Leaves] }

\* the reply body: unreadable stream, text that is not JSON, JSON null, a
\* JSON scalar or array, or a JSON object
BodyKinds == {"unreadable", "malformed", "null", "scalar", "object"}
Bodies ==
    { [kind |-> k, content |-> [t |-> "absent", f |-> NoFields]] :
         k \in BodyKinds \ {"object"} }
    \cup { [kind |-> "object", content |-> c] : c \in JsonContents }

\* what client.Do returns: a transport error, or a response
NoBody == [kind |-> "null", content |-> [t |-> "absent", f |-> NoFields]]
Replies ==
    { [sendErr |-> TRUE, status |-> 0, body |-> NoBody] }
    \cup { [sendErr |-> FALSE, status |-> st, body |-> b] : st \in StatusCodes, b \in Bodies }

\* the Go value json.Unmarshal stores in an interface{}: JSON null and a
\* missing key both give nil, a JSON object gives a map[string]interface{}
\* that holds the keys that are present
GoNil == [t |-> "nil", s |-> << >>]
GoLeaf(leaf) ==
    CASE leaf.t \in {"absent", "null"} -> GoNil
      [] leaf.t = "string" -> [t |-> "string", s |-> leaf.s]
      [] leaf.t = "number" -> [t |-> "float64", s |-> << >>]
      [] OTHER             -> [t |-> "map", s |-> << >>]
GoContent(c) ==
    CASE c.t \in {"absent", "null"} -> [t |-> "nil", keys |-> {}, f |-> [k \in FieldKeys |-> GoNil]]
      [] c.t = "string" -> [t |-> "string", keys |-> {}, f |-> [k \in FieldKeys |-> GoNil]]
      [] c.t = "number" -> [t |-> "float64", keys |-> {}, f |-> [k \in FieldKeys |-> GoNil]]
      [] c.t = "array"  -> [t |-> "slice", keys |-> {}, f |-> [k \in FieldKeys |-> GoNil]]
      [] OTHER -> [t |-> "map",
                   keys |-> {k \in FieldKeys : c.f[k].t # "absent"},
                   f |-> [k \in FieldKeys |-> GoLeaf(c.f[k])]]

\* processResponse: (message, err)
ZeroMessage == [Content |-> GoContent([t |-> "absent", f |-> NoFields])]
processResponse(body) ==
    CASE body.kind = "unreadable" ->
            [message |-> ZeroMessage, err |-> "cannot read response body"]
      [] body.kind \in {"malformed", "scalar"} ->
            [message |-> ZeroMessage, err |-> "cannot read marshal body into message response"]
      [] body.kind = "null" ->
            [message |-> ZeroMessage, err |-> ""]
      [] OTHER ->
            [message |-> [Content |-> GoContent(body.content)], err |-> ""]

\* bytes.NewBufferString(s).Bytes(): the bytes of s, index by index
BufferStringBytes(s) == [i \in 1..Len(s) |-> s[i]]

\* the outcome of an operation: err = "" is a nil error
NoBytes == << >>
OpResult(err, csr, conf) == [err |-> err, SignedCSR |-> csr, conf |-> conf]

\* the status check of Enrol and Heartbeat with the comparison off by one
StatusIsErrorStrict(code) == code > 400

\* resp.StatusCode >= 400 (Enrol line 90, Heartbeat line 152)
StatusIsError(code) == code >= 400

\* Enrol after a successful Build: lines 85-94
Enrol(resp) ==
    IF resp.sendErr THEN OpResult("cannot enrol device", NoBytes, "none")
    ELSE IF StatusIsError(resp.status)
         THEN OpResult("cannot enrol device. code", NoBytes, "none")
         ELSE OpResult("", NoBytes, "none")

\* Heartbeat after a successful Build: lines 146-156
Heartbeat(resp) ==
    IF resp.sendErr THEN OpResult("cannot send heartbeat", NoBytes, "none")
    ELSE IF StatusIsError(resp.status)
         THEN OpResult("cannot send heartbeat. code", NoBytes, "none")
         ELSE OpResult("", NoBytes, "none")

\* a narrowing that takes a missing certificate for an empty one
RegisterNarrowLax(message) ==
    IF message.Content.t # "map"
    THEN OpResult("payload content is not a map", NoBytes, "none")
    ELSE IF message.Content.f["certificate"].t # "string"
         THEN OpResult("", NoBytes, "none")
         ELSE OpResult("", BufferStringBytes(message.Content.f["certificate"].s), "none")

\* Register, lines 120-130: the narrowing of the envelope content.  The type
\* assertion cert.(string) of line 130 panics on a value that is no string.
RegisterNarrow(message) ==
    IF message.Content.t # "map"
    THEN OpResult("payload content is not a map", NoBytes, "none")
    ELSE IF "certificate" \notin message.Content.keys
         THEN OpResult("cannot get certificate from payload", NoBytes, "none")
         ELSE IF message.Content.f["certificate"].t # "string"
              THEN OpResult("panic", NoBytes, "none")
              ELSE OpResult("", BufferStringBytes(message.Content.f["certificate"].s), "none")

\* a Register that rejects a status of 400 or above before it decodes
RegisterStatusChecked(resp) ==
    IF resp.sendErr THEN OpResult("cannot register device", NoBytes, "none")
    ELSE IF StatusIsError(resp.status)
         THEN OpResult("cannot register device. code", NoBytes, "none")
         ELSE LET pr == processResponse(resp.body)
              IN  IF pr.err # "" THEN OpResult(pr.err, NoBytes, "none")
                  ELSE RegisterNarrow(pr.message)

\* Register after a successful Build: lines 110-130
Register(resp) ==
    IF resp.sendErr THEN OpResult("cannot register device", NoBytes, "none")
    ELSE LET pr == processResponse(resp.body)
         IN  IF pr.err # "" THEN OpResult(pr.err, NoBytes, "none")
             ELSE RegisterNarrow(pr.message)

\* json.Marshal of the configuration value followed by json.Unmarshal into
\* models.DeviceConfiguration (a struct): null leaves the zero value, an
\* object is decoded, any other JSON value is an error
ConfigurationDecodes(v) == v.t \in {"nil", "map"}

\* GetConfiguration after a successful Build: lines 171-203
GetConfiguration(resp) ==
    IF resp.sendErr THEN OpResult("cannot get configuration", NoBytes, "none")
    ELSE LET pr == processResponse(resp.body)
         IN  IF pr.err # "" THEN OpResult(pr.err, NoBytes, "none")
             ELSE IF pr.message.Content.t # "map"
                  THEN OpResult("payload content is not a map", NoBytes, "none")
                  ELSE IF "configuration" \notin pr.message.Content.keys
                       THEN OpResult("cannot find configuration data in payload", NoBytes, "none")
                       ELSE IF ~ConfigurationDecodes(pr.message.Content.f["configuration"])
                            THEN OpResult("cannot read configuration", NoBytes, "none")
                            ELSE OpResult("", NoBytes, pr.message.Content.f["configuration"].t)

Operations == {"Enrol", "Register", "Heartbeat", "GetConfiguration"}
\* the part of an operation that follows c.do(request)
Respond(op, resp) ==
    CASE op = "Enrol"     -> Enrol(resp)
      [] op = "Register"  -> Register(resp)
      [] op = "Heartbeat" -> Heartbeat(resp)
      [] OTHER            -> GetConfiguration(resp)

(***************************************************************************)
(* The Client and its callers                                              *)
(***************************************************************************)
VARIABLES
    certificateSignature,  \* Client.certificateSignature
    transport,             \* Client.transport
    transportWrappers,     \* Client.transportWrappers
    certMaterial,          \* the material the certificate manager holds
    callers,               \* per caller: position in do/getClient and locals
    before,                \* (signature, transport) when the latest call began
    rebuildFailed,         \* a rebuild failed since the last successful one
    last,                  \* how the most recently completed call ended
    reply,                 \* SpecOps: the reply handed to an operation
    outcome,               \* SpecOps: what the operation returned for it
    built                  \* SpecCompose: what createTransport returned

VARIABLES
    newCall                \* the call of New: its arguments and what it returned

\* the profile Manager (package state)
VARIABLES
    profileEvaluator,      \* Manager.profileEvaluator
    metricServer,          \* Manager.metricServer: "nil", "running", "stopped"
    metricChannel,         \* run's local metricChannel: "nil" or "open"
    run,                   \* where the run goroutine is
    cancelled,             \* cancelFunc was called: ctx.Done() is closed
    shutdown,              \* where the caller of Shutdown is
    OutputCh,              \* the value run is blocked sending on OutputCh
    received,              \* the last value a consumer received from OutputCh
    inForce,               \* the last event read from recv was a 'set'
    step                   \* what the last iteration of run did

managerVars == <<profileEvaluator, metricServer, metricChannel, run, cancelled,
                 shutdown, OutputCh, received, inForce, step>>

\* the root command
VARIABLES
    profileManagerEnabled, \* the feature flag
    rootPc,                \* the statement Run is at
    calls,                 \* what Run has called so far, in order
    profileManager,        \* Run's local profileManager: "nil" or "manager"
    schedulerProfileCh,    \* the profile channel scheduler.Start was given
    done                   \* signals buffered in the done channel

rootVars == <<profileManagerEnabled, rootPc, calls, profileManager,
              schedulerProfileCh, done>>

\* the state outside the Client's fields and its callers
others == <<newCall, managerVars, rootVars>>

vars == <<certificateSignature, transport, transportWrappers, certMaterial,
          callers, before, rebuildFailed, last, reply, outcome, built, others>>

\* logWrapper.Wrap, the only wrapper New registers
LogWrapper == 1

NoResult == OpResult("", NoBytes, "none")
\* a caller: where it stands, the transport t it built (getClient's local)
\* and the transport its http.Client wraps
IdleCaller == [pc |-> "idle", t |-> NilTransport, client |-> NilTransport]
\* a completed call: the stage it ended at, the operation, whether it
\* returned an error, whether getClient handed it a client
Completed(stage, op, err, gotClient) ==
    [stage |-> stage, op |-> op, err |-> err, gotClient |-> gotClient]
NoCall == Completed("none", "none", FALSE, FALSE)
NoBuilt == [result |-> NilTransport, err |-> FALSE]
NoOutcome == [op |-> "none", result |-> NoResult]
NoReply == [sendErr |-> TRUE, status |-> 0, body |-> NoBody]

\* server addresses given to New: a URL, the empty string, an invalid escape,
\* a first segment with a colon and no scheme, an unclosed host bracket
Paths == {"https://server:8043", "", "%zz", ":8043", "ht\\ntp"}
\* url.Parse returns no error
UrlParseOk(path) == path \in {"https://server:8043", ""}

\* New returned a Client built from a manager and a server address
ConstructedCall ==
    [done |-> TRUE, certManager |-> "manager", path |-> "https://server:8043",
     client |-> TRUE, err |-> FALSE, clientManager |-> "manager"]
\* New has not been called
NoNewCall ==
    [done |-> FALSE, certManager |-> "nil", path |-> "",
     client |-> FALSE, err |-> FALSE, clientManager |-> "nil"]

\* Evaluator: the profiles it evaluates and the metric values it was given
NoEvaluator == [set |-> FALSE, profiles |-> {}, values |-> 0]
\* nothing is being sent on OutputCh
NoSend == [full |-> FALSE, value |-> << >>]
\* run has not gone through an iteration
NoStep ==
    [event |-> "none", inForce |-> FALSE, evaluate |-> FALSE,
     addValue |-> FALSE, err |-> FALSE, results |-> << >>]

\* New of the profile Manager: the Manager as constructed, run started
ManagerNew ==
    /\ profileEvaluator = NoEvaluator
    /\ metricServer = "nil"
    /\ metricChannel = "nil"
    /\ run = "select"
    /\ cancelled = FALSE
    /\ shutdown = "idle"
    /\ OutputCh = NoSend
    /\ received = NoSend
    /\ inForce = FALSE
    /\ step = NoStep

\* the root command before Run
RootIdle ==
    /\ rootPc = "setupLogger"
    /\ calls = << >>
    /\ profileManager = "nil"
    /\ schedulerProfileCh = "unset"
    /\ done = 0

\* the state outside the Client when only the Client is looked at
OthersIdle ==
    /\ newCall = ConstructedCall
    /\ ManagerNew
    /\ RootIdle
    /\ profileManagerEnabled = TRUE

\* New: the Client as constructed, before any call
New ==
    /\ certificateSignature = << >>
    /\ transport = NilTransport
    /\ transportWrappers = << LogWrapper >>

Init ==
    /\ OthersIdle
    /\ New
    /\ certMaterial \in MaterialIds
    /\ callers = [c \in Callers |-> IdleCaller]
    /\ before = [sig |-> << >>, transport |-> NilTransport]
    /\ rebuildFailed = FALSE
    /\ last = NoCall
    /\ reply = NoReply
    /\ outcome = NoOutcome
    /\ built = NoBuilt

\* an operation is called; requestBuilder.Build may fail, and then the
\* operation returns before c.do.  Nothing in do and getClient depends on
\* which operation it is, so the operation is drawn where its code differs:
\* here when Build fails, in Send otherwise.
Call(c, op, buildOk) ==
    /\ callers[c].pc = "idle"
    /\ before' = [sig |-> certificateSignature, transport |-> transport]
    /\ IF buildOk
       THEN /\ callers' = [callers EXCEPT ![c].pc = "getClient"]
            /\ UNCHANGED last
       ELSE /\ last' = Completed("build", op, TRUE, FALSE)
            /\ UNCHANGED callers
    /\ UNCHANGED <<certificateSignature, transport, transportWrappers,
                   certMaterial, rebuildFailed, reply, outcome, built,
                   others>>

\* getClient line 218: read the stored signature, ask the manager for the
\* current one, compare
Compare(c) ==
    /\ callers[c].pc = "getClient"
    /\ callers' = [callers EXCEPT ![c].pc =
           IF SignatureChanged(certificateSignature, SigOf(certMaterial))
           THEN "createTransport" ELSE "return"]
    /\ UNCHANGED <<certificateSignature, transport, transportWrappers,
                   certMaterial, before, rebuildFailed, last, reply, outcome,
                   built,
                   others>>

\* a getClient that goes on after a failed createTransport
BuildFailedIgnored(r) == FALSE

\* getClient line 221: if err != nil
BuildFailed(r) == r.err

\* getClient lines 220-223: createTransport reads the certificates; on error
\* getClient and do return it, and so does the operation
CreateTransport(c, op) ==
    /\ callers[c].pc = "createTransport"
    /\ LET r == createTransport(transportWrappers, certMaterial)
       IN  IF BuildFailed(r)
           THEN /\ last' = Completed("getClient", op, TRUE, FALSE)
                /\ callers' = [callers EXCEPT ![c] = IdleCaller]
                /\ rebuildFailed' = TRUE
           ELSE /\ callers' = [callers EXCEPT ![c].pc = "storeSignature",
                                              ![c].t = r.result]
                /\ UNCHANGED <<last, rebuildFailed>>
    /\ UNCHANGED <<certificateSignature, transport, transportWrappers,
                   certMaterial, before, reply, outcome, built,
                   others>>

\* getClient line 225: c.certificateSignature = c.certMananger.Signature()
StoreSignature(c) ==
    /\ callers[c].pc = "storeSignature"
    /\ certificateSignature' = SigOf(certMaterial)
    /\ callers' = [callers EXCEPT ![c].pc = "storeTransport"]
    /\ UNCHANGED <<transport, transportWrappers, certMaterial, before,
                   rebuildFailed, last, reply, outcome, built,
                   others>>

\* getClient line 227: c.transport = t
StoreTransport(c) ==
    /\ callers[c].pc = "storeTransport"
    /\ transport' = callers[c].t
    /\ rebuildFailed' = FALSE
    /\ callers' = [callers EXCEPT ![c].pc = "return", ![c].t = NilTransport]
    /\ UNCHANGED <<certificateSignature, transportWrappers, certMaterial,
                   before, last, reply, outcome, built,
                   others>>

\* getClient lines 230-233: the client wraps whatever c.transport holds now
Return(c) ==
    /\ callers[c].pc = "return"
    /\ callers' = [callers EXCEPT ![c].pc = "send", ![c].client = transport]
    /\ UNCHANGED <<certificateSignature, transport, transportWrappers,
                   certMaterial, before, rebuildFailed, last, reply, outcome,
                   built,
                   others>>

\* what an operation can return once it holds a client: its result for
\* every reply (or transport error) that client.Do may hand back
EnrolResults == { Enrol(r) : r \in Replies }
RegisterResults == { Register(r) : r \in Replies }
HeartbeatResults == { Heartbeat(r) : r \in Replies }
GetConfigurationResults == { GetConfiguration(r) : r \in Replies }
Results(op) ==
    CASE op = "Enrol"     -> EnrolResults
      [] op = "Register"  -> RegisterResults
      [] op = "Heartbeat" -> HeartbeatResults
      [] OTHER            -> GetConfigurationResults

\* a Send that drops the cached transport when the operation fails
SendForgetsTransport(c, op, res) ==
    /\ callers[c].pc = "send"
    /\ res \in Results(op)
    /\ last' = Completed("send", op, res.err # "", TRUE)
    /\ callers' = [callers EXCEPT ![c] = IdleCaller]
    /\ transport' = IF res.err # "" THEN NilTransport ELSE transport
    /\ UNCHANGED <<certificateSignature, transportWrappers,
                   certMaterial, before, rebuildFailed, reply, outcome, built,
                   others>>

\* do line 212 and the rest of the operation: the request is sent, the
\* reply (or the transport error) is turned into the operation's result
Send(c, op, res) ==
    /\ callers[c].pc = "send"
    /\ res \in Results(op)
    /\ last' = Completed("send", op, res.err # "", TRUE)
    /\ callers' = [callers EXCEPT ![c] = IdleCaller]
    /\ UNCHANGED <<certificateSignature, transport, transportWrappers,
                   certMaterial, before, rebuildFailed, reply, outcome, built,
                   others>>

\* the certificate manager replaces its material (registration, renewal)
Rotate(m) ==
    /\ m # certMaterial
    /\ certMaterial' = m
    /\ UNCHANGED <<certificateSignature, transport, transportWrappers,
                   callers, before, rebuildFailed, last, reply, outcome, built,
                   others>>

InGetClient(c) ==
    callers[c].pc \in {"createTransport", "storeSignature", "storeTransport", "return"}

\* a rotation that happens while no caller is between the comparison and the
\* return of getClient
RotateBetweenCalls(m) ==
    /\ \A c \in Callers : ~InGetClient(c)
    /\ Rotate(m)

CallerStep(c) ==
    \/ \E op \in Operations, buildOk \in BOOLEAN : Call(c, op, buildOk)
    \/ Compare(c)
    \/ \E op \in Operations : CreateTransport(c, op)
    \/ StoreSignature(c)
    \/ StoreTransport(c)
    \/ Return(c)
    \/ \E op \in Operations : \E res \in Results(op) : Send(c, op, res)

\* any number of callers, the manager rotating at any moment.  The Client has
\* no lock, so the statements of getClient of different callers interleave;
\* the model takes each statement as one step.
Next ==
    \/ \E c \in Callers : CallerStep(c)
    \/ \E m \in MaterialIds : Rotate(m)
Spec == Init /\ [][Next]_vars

\* one caller issuing its calls one after the other, the manager rotating at
\* any moment
NextSeq ==
    \/ CallerStep(1)
    \/ \E m \in MaterialIds : Rotate(m)
SpecSeq == Init /\ [][NextSeq]_vars

\* any number of callers, the material fixed while a caller is in getClient
NextRace ==
    \/ \E c \in Callers : CallerStep(c)
    \/ \E m \in MaterialIds : RotateBetweenCalls(m)
SpecRace == Init /\ [][NextRace]_vars

\* two callers using the Client at the same time, the material fixed while
\* one of them is in getClient
NextPair ==
    \/ CallerStep(1)
    \/ CallerStep(2)
    \/ \E m \in MaterialIds : RotateBetweenCalls(m)
SpecPair == Init /\ [][NextPair]_vars

(***************************************************************************)
(* The operations applied to every reply                                    *)
(***************************************************************************)
InitOps ==
    /\ OthersIdle
    /\ New
    /\ certMaterial = 0
    /\ callers = [c \in Callers |-> IdleCaller]
    /\ before = [sig |-> << >>, transport |-> NilTransport]
    /\ rebuildFailed = FALSE
    /\ last = NoCall
    /\ reply \in Replies
    /\ outcome = NoOutcome
    /\ built = NoBuilt

\* the operation op receives `reply` from c.do and returns
Operate(op) ==
    /\ outcome = NoOutcome
    /\ outcome' = [op |-> op, result |-> Respond(op, reply)]
    /\ UNCHANGED <<certificateSignature, transport, transportWrappers,
                   certMaterial, callers, before, rebuildFailed, last, reply,
                   built,
                   others>>

OpEnrol == Operate("Enrol")
OpRegister == Operate("Register")
OpHeartbeat == Operate("Heartbeat")
OpGetConfiguration == Operate("GetConfiguration")

NextOps == OpEnrol \/ OpRegister \/ OpHeartbeat \/ OpGetConfiguration
SpecOps == InitOps /\ [][NextOps]_vars

(***************************************************************************)
(* createTransport applied to every middleware list                         *)
(***************************************************************************)
WrapperLists == UNION { [1..n -> WrapperIds] : n \in 0..MaxWrappers }

InitCompose ==
    /\ OthersIdle
    /\ certificateSignature = << >>
    /\ transport = NilTransport
    /\ transportWrappers \in WrapperLists
    /\ certMaterial \in MaterialIds
    /\ callers = [c \in Callers |-> IdleCaller]
    /\ before = [sig |-> << >>, transport |-> NilTransport]
    /\ rebuildFailed = FALSE
    /\ last = NoCall
    /\ reply = NoReply
    /\ outcome = NoOutcome
    /\ built = NoBuilt

BuildTransport ==
    /\ built = NoBuilt
    /\ built' = createTransport(transportWrappers, certMaterial)
    /\ UNCHANGED <<certificateSignature, transport, transportWrappers,
                   certMaterial, callers, before, rebuildFailed, last, reply,
                   outcome,
                   others>>

NextCompose == BuildTransport
SpecCompose == InitCompose /\ [][NextCompose]_vars

(***************************************************************************)
(* Properties                                                              *)
(***************************************************************************)
\* the base transport at the bottom of a chain of wrappers
RECURSIVE BaseOf(_)
BaseOf(t) == IF t.kind = "wrap" THEN BaseOf(t.inner) ELSE t

\* the signature of the material a transport was built from
BuiltFor(t) == SigOf(BaseOf(t).tls.id)

\* caller c is between the comparison that found a change and the swap
Rebuilding(c) ==
    callers[c].pc \in {"createTransport", "storeSignature", "storeTransport"}

OneBuilderAtATime ==
    \A c1, c2 \in Callers :
        (c1 # c2) => ~(Rebuilding(c1) /\ Rebuilding(c2))

\* the stored signature and the stored transport belong together: nothing
\* was built yet, or the transport was built from the material the signature
\* names
PairConsistent(sig, t) ==
    \/ t = NilTransport /\ sig = << >>
    \/ t # NilTransport /\ BuiltFor(t) = sig

\* C3: at the moment getClient returns a client, the stored signature and the
\* transport the client wraps belong together (no caller meets the new
\* signature next to the old transport).
NoHalfRebuiltCache ==
    [][\A c \in Callers :
          (callers[c].pc = "return" /\ callers'[c].pc = "send") =>
             PairConsistent(certificateSignature, transport)]_vars

\* C4: whenever no rebuild is under way, the stored signature is the
\* signature of the material the stored transport was built from.
SignatureMatchesTransport ==
    ((\A c \in Callers : ~Rebuilding(c)) /\ transport # NilTransport)
        => certificateSignature = BuiltFor(transport)

\* C5: a call whose createTLSConfig fails ends there with an error and no
\* client, and the stored signature and transport are what they were when the
\* call began.
FailedRebuildLeavesState ==
    [][\A c \in Callers :
          (/\ callers[c].pc = "createTransport"
           /\ callers'[c] # callers[c]
           /\ createTLSConfig(certMaterial).err) =>
             /\ callers'[c].pc = "idle"
             /\ last'.stage = "getClient" /\ last'.err /\ ~last'.gotClient
             /\ certificateSignature' = before.sig
             /\ transport' = before.transport]_vars

\* a rebuild has failed while a transport was cached
FailedRebuildWitness ==
    /\ last.stage = "getClient"
    /\ last.err
    /\ rebuildFailed
    /\ transport # NilTransport
    /\ certificateSignature = BuiltFor(transport)

\* C6: once a rebuild has failed while a transport is cached, every call that
\* ends is one that was handed a client wrapping that cached transport.
PreviousTransportServes ==
    [][\A c \in Callers :
          (/\ rebuildFailed
           /\ transport # NilTransport
           /\ callers[c].pc # "idle"
           /\ callers'[c].pc = "idle") =>
             /\ last'.gotClient
             /\ callers[c].client = transport]_vars

\* C7: every client getClient returns wraps a transport that createTransport
\* built with a TLS configuration.
ClientWrapsTransport ==
    \A c \in Callers :
        callers[c].pc = "send" =>
            /\ callers[c].client # NilTransport
            /\ BaseOf(callers[c].client).tls # NoTLS

\* the chain w1(w2(...wn(base)...)) written from the outside in
RECURSIVE Nested(_, _)
Nested(ws, base) ==
    IF ws = << >> THEN base ELSE Wrap(Head(ws), Nested(Tail(ws), base))

\* what a request meets on its way through a transport: each wrapper before
\* and after the transport it wraps, the wire at the bottom
RECURSIVE RoundTrip(_)
RoundTrip(t) ==
    IF t.kind = "wrap"
    THEN << [by |-> t.by, at |-> "request"] >> \o RoundTrip(t.inner)
            \o << [by |-> t.by, at |-> "response"] >>
    ELSE << [by |-> 0, at |-> "wire"] >>

\* C8: createTransport nests the wrappers in list order around the base
\* transport: a request meets w1, ..., wn in this order, then the wire, and
\* the response meets wn, ..., w1.
CompositionOrder ==
    built # NoBuilt =>
        LET ws == transportWrappers
            n  == Len(ws)
            tr == RoundTrip(built.result)
        IN  /\ built.result = Nested(ws, BaseOf(built.result))
            /\ BaseOf(built.result).kind = "base"
            /\ Len(tr) = 2 * n + 1
            /\ tr[n + 1].at = "wire"
            /\ \A k \in 1..n :
                  /\ tr[k] = [by |-> ws[k], at |-> "request"]
                  /\ tr[2 * n + 2 - k] = [by |-> ws[k], at |-> "response"]

\* a chain of three different wrappers was built
CompositionOrderWitness ==
    /\ built # NoBuilt
    /\ Len(transportWrappers) = 3
    /\ Cardinality({transportWrappers[k] : k \in 1..3}) = 3

\* C9: Enrol and Heartbeat, given a response, return no error exactly when
\* its status code is 399 or below, and an ordinary error otherwise.
StatusThreshold ==
    (outcome.op \in {"Enrol", "Heartbeat"} /\ ~reply.sendErr) =>
        /\ (outcome.result.err = "") <=> (reply.status <= 399)
        /\ outcome.result.err # "panic"

\* Enrol got a response with status 400 and returned an error
StatusThresholdWitness ==
    /\ outcome.op = "Enrol"
    /\ ~reply.sendErr
    /\ reply.status = 400
    /\ outcome.result.err # ""

\* the reply carries a content object whose certificate is a JSON string
HasCertificateString(r) ==
    /\ r.body.kind = "object"
    /\ r.body.content.t = "object"
    /\ r.body.content.f["certificate"].t = "string"

\* the reply is no envelope, its content is no object, or the object has no
\* certificate key
LacksCertificate(r) ==
    \/ r.body.kind # "object"
    \/ r.body.content.t # "object"
    \/ r.body.content.f["certificate"].t = "absent"

\* C10: Register, given a response, returns an error and no bytes when the
\* reply lacks a certificate, and returns the bytes of the certificate string
\* and no error when the reply carries one.
RegisterNarrowing ==
    (outcome.op = "Register" /\ ~reply.sendErr) =>
        /\ LacksCertificate(reply) =>
              /\ outcome.result.err \notin {"", "panic"}
              /\ outcome.result.SignedCSR = << >>
        /\ HasCertificateString(reply) =>
              /\ outcome.result.err = ""
              /\ outcome.result.SignedCSR = reply.body.content.f["certificate"].s

\* Register returned the bytes of a certificate of the greatest length
RegisterNarrowingWitness ==
    /\ outcome.op = "Register"
    /\ HasCertificateString(reply)
    /\ Len(outcome.result.SignedCSR) = MaxStrLen
    /\ outcome.result.err = ""

\* C11: whatever the reply, an operation ends by returning to its caller; it
\* never aborts with a panic.
NoAbortOnReply ==
    outcome.op # "none" => outcome.result.err # "panic"

\* C14: for Register and GetConfiguration the result depends on the body
\* alone: the same body under any other status code gives the same result.
StatusDisregarded ==
    (outcome.op \in {"Register", "GetConfiguration"} /\ ~reply.sendErr) =>
        \A st \in StatusCodes :
            Respond(outcome.op, [reply EXCEPT !.status = st]) = outcome.result

\* Register returned a certificate for a reply with status 500
StatusDisregardedWitness ==
    /\ outcome.op = "Register"
    /\ ~reply.sendErr
    /\ reply.status = 500
    /\ outcome.result.err = ""
    /\ Len(outcome.result.SignedCSR) > 0

\* caller c takes a step
Steps(c) == callers'[c] # callers[c]

\* C13: the stored signature changes only in the signature store of a
\* rebuild whose createTransport succeeded, the stored transport only in its
\* transport store; a call that finds the signatures equal, a call whose
\* request build fails and a call whose send fails change neither, and a step
\* of one caller leaves the other callers where they are.
ClientStateFrame ==
    [][/\ (certificateSignature' # certificateSignature) =>
             \E c \in Callers :
                 /\ callers[c].pc = "storeSignature"
                 /\ callers'[c].pc = "storeTransport"
                 /\ BaseOf(callers[c].t).kind = "base"
                 /\ BaseOf(callers[c].t).tls # NoTLS
       /\ (transport' # transport) =>
             \E c \in Callers :
                 /\ callers[c].pc = "storeTransport"
                 /\ callers'[c].pc = "return"
                 /\ transport' = callers[c].t
                 /\ BaseOf(callers[c].t).tls # NoTLS
       /\ (last' # last /\ last'.stage \in {"build", "send"}) =>
             UNCHANGED <<certificateSignature, transport>>
       /\ \A c \in Callers :
             (Steps(c) /\ callers[c].pc \in {"idle", "getClient", "return", "send"}) =>
                 UNCHANGED <<certificateSignature, transport>>
       /\ \A c, d \in Callers :
             (Steps(c) /\ c # d) => callers'[d] = callers[d]]_vars

\* a call whose send failed has ended and the transport is still cached
ClientStateFrameWitness ==
    /\ last.stage = "send"
    /\ last.err
    /\ transport # NilTransport

(***************************************************************************)
(* New                                                                      *)
(***************************************************************************)
InitNew ==
    /\ certificateSignature = << >>
    /\ transport = NilTransport
    /\ transportWrappers = << >>
    /\ certMaterial \in MaterialIds
    /\ callers = [c \in Callers |-> IdleCaller]
    /\ before = [sig |-> << >>, transport |-> NilTransport]
    /\ rebuildFailed = FALSE
    /\ last = NoCall
    /\ reply = NoReply
    /\ outcome = NoOutcome
    /\ built = NoBuilt
    /\ newCall = NoNewCall
    /\ ManagerNew
    /\ RootIdle
    /\ profileManagerEnabled = TRUE

\* a New that does not look at the certificate manager
NewRejectsPathOnly(certManager, path) == ~UrlParseOk(path)

\* New lines 50-57: the two error returns
NewRejects(certManager, path) == certManager = "nil" \/ ~UrlParseOk(path)

\* New(path, certManager), lines 49-70
NewClient(certManager, path) ==
    /\ ~newCall.done
    /\ IF NewRejects(certManager, path)
       THEN /\ newCall' = [done |-> TRUE, certManager |-> certManager,
                           path |-> path, client |-> FALSE, err |-> TRUE,
                           clientManager |-> "nil"]
            /\ UNCHANGED <<certificateSignature, transport, transportWrappers>>
       ELSE /\ newCall' = [done |-> TRUE, certManager |-> certManager,
                           path |-> path, client |-> TRUE, err |-> FALSE,
                           clientManager |-> certManager]
            /\ certificateSignature' = << >>
            /\ transport' = NilTransport
            /\ transportWrappers' = << LogWrapper >>
    /\ UNCHANGED <<certMaterial, callers, before, rebuildFailed, last, reply,
                   outcome, built, managerVars, rootVars>>

\* New, then one caller using the Client it returned
NextNew ==
    \/ \E certManager \in {"nil", "manager"}, path \in Paths :
           NewClient(certManager, path)
    \/ newCall.client /\ NextSeq
SpecNew == InitNew /\ [][NextNew]_vars

\* C15: New returns an error and no Client when the certificate manager is
\* nil or the address does not parse; a Client it returns has the manager, an
\* empty signature, no transport and the logging wrapper as its only wrapper.
ConstructionValidated ==
    [][(~newCall.done /\ newCall'.done) =>
          /\ (newCall'.certManager = "nil"
                 \/ newCall'.path \in {"%zz", ":8043", "ht\\ntp"}) =>
                (newCall'.err /\ ~newCall'.client)
          /\ newCall'.client <=> ~newCall'.err
          /\ newCall'.client =>
                /\ newCall'.clientManager = "manager"
                /\ certificateSignature' = << >>
                /\ Len(certificateSignature') = 0
                /\ transport' = NilTransport
                /\ transportWrappers' = << LogWrapper >>]_vars

\* New has returned a Client and no call was made yet
ConstructionValidatedWitness ==
    /\ newCall.done
    /\ newCall.client
    /\ newCall.certManager = "manager"
    /\ transportWrappers = << LogWrapper >>
    /\ last = NoCall

(***************************************************************************)
(* The profile Manager                                                      *)
(***************************************************************************)
Profiles == 1..NumProfiles
ProfileStates == {"active", "inactive"}
\* Evaluate's first result: the profiles that changed state, with the state
Mappings(profiles) == UNION {[D -> ProfileStates] : D \in SUBSET profiles}
\* entity.Option of the device profiles: None, or a value
Options ==
    {[None |-> TRUE, Value |-> {}]}
        \cup {[None |-> FALSE, Value |-> P] : P \in SUBSET Profiles}

\* the Client and the root command when only the Manager is looked at
ManagerAlone ==
    /\ New
    /\ certMaterial = 0
    /\ callers = [c \in Callers |-> IdleCaller]
    /\ before = [sig |-> << >>, transport |-> NilTransport]
    /\ rebuildFailed = FALSE
    /\ last = NoCall
    /\ reply = NoReply
    /\ outcome = NoOutcome
    /\ built = NoBuilt
    /\ newCall = ConstructedCall
    /\ RootIdle
    /\ profileManagerEnabled = TRUE

InitManager == ManagerAlone /\ ManagerNew

\* what an iteration of run leaves alone
ManagerFrame ==
    UNCHANGED <<certificateSignature, transport, transportWrappers,
                certMaterial, callers, before, rebuildFailed, last, reply,
                outcome, built, newCall, rootVars>>

\* newProfileEvaluator(opt.Value), line 70
newProfileEvaluator(value) == [set |-> TRUE, profiles |-> value, values |-> 0]

\* Evaluator.AddValue, line 83
AddValue(evaluator) ==
    [evaluator EXCEPT !.values = IF @ < MaxValues THEN @ + 1 ELSE @]

\* lines 91-93: the condition under which run sends the results
SendsResults(err) == err

\* case opt := <-m.recv, lines 58-76
HandleRecv(opt) ==
    /\ run = "select"
    /\ IF opt.None
       THEN /\ IF metricServer # "nil"
               THEN metricServer' = "stopped" /\ metricChannel' = "nil"
               ELSE UNCHANGED <<metricServer, metricChannel>>
            /\ inForce' = FALSE
            /\ step' = [NoStep EXCEPT !.event = "cleared", !.inForce = inForce]
            /\ UNCHANGED profileEvaluator
       ELSE /\ profileEvaluator' = newProfileEvaluator(opt.Value)
            /\ IF metricServer = "nil"
               THEN metricServer' = "running" /\ metricChannel' = "open"
               ELSE UNCHANGED <<metricServer, metricChannel>>
            /\ inForce' = TRUE
            /\ step' = [NoStep EXCEPT !.event = "set", !.inForce = inForce]
    /\ UNCHANGED <<run, cancelled, shutdown, OutputCh, received>>
    /\ ManagerFrame

\* case metricValue := <-metricChannel, lines 77-83: a nil channel is never
\* ready, and only a running server writes to its channel
HandleMetric ==
    /\ run = "select"
    /\ metricChannel = "open"
    /\ metricServer = "running"
    /\ IF ~profileEvaluator.set
       THEN /\ step' = [NoStep EXCEPT !.event = "metric", !.inForce = inForce]
            /\ UNCHANGED profileEvaluator
       ELSE /\ profileEvaluator' = AddValue(profileEvaluator)
            /\ step' = [NoStep EXCEPT !.event = "metric", !.inForce = inForce,
                                      !.addValue = TRUE]
    /\ UNCHANGED <<metricServer, metricChannel, run, cancelled, shutdown,
                   OutputCh, received, inForce>>
    /\ ManagerFrame

\* case <-ticker.C, lines 84-93; Evaluate returns (results, err)
HandleTick(results, err) ==
    /\ run = "select"
    /\ IF ~profileEvaluator.set
       THEN /\ step' = [NoStep EXCEPT !.event = "tick", !.inForce = inForce]
            /\ UNCHANGED <<run, OutputCh>>
       ELSE /\ results \in Mappings(profileEvaluator.profiles)
            /\ step' = [event |-> "tick", inForce |-> inForce,
                        evaluate |-> TRUE, addValue |-> FALSE, err |-> err,
                        results |-> results]
            /\ IF SendsResults(err)
               THEN /\ run' = "sending"
                    /\ OutputCh' = [full |-> TRUE, value |-> results]
               ELSE UNCHANGED <<run, OutputCh>>
    /\ UNCHANGED <<profileEvaluator, metricServer, metricChannel, cancelled,
                   shutdown, received, inForce>>
    /\ ManagerFrame

\* case <-ctx.Done(), lines 94-95
HandleDone ==
    /\ run = "select"
    /\ cancelled
    /\ run' = "returned"
    /\ step' = [NoStep EXCEPT !.event = "done", !.inForce = inForce]
    /\ UNCHANGED <<profileEvaluator, metricServer, metricChannel, cancelled,
                   shutdown, OutputCh, received, inForce>>
    /\ ManagerFrame

\* a consumer receives from OutputCh, which completes the send of line 92
Receive ==
    /\ run = "sending"
    /\ received' = OutputCh
    /\ OutputCh' = NoSend
    /\ run' = "select"
    /\ UNCHANGED <<profileEvaluator, metricServer, metricChannel, cancelled,
                   shutdown, inForce, step>>
    /\ ManagerFrame

\* Shutdown, line 101: m.cancelFunc()
ShutdownCancel ==
    /\ shutdown = "idle"
    /\ cancelled' = TRUE
    /\ shutdown' = "cancelled"
    /\ UNCHANGED <<profileEvaluator, metricServer, metricChannel, run,
                   OutputCh, received, inForce, step>>
    /\ ManagerFrame

\* Shutdown, lines 102-106: the metric server, if there is one, is shut down
ShutdownServer ==
    /\ shutdown = "cancelled"
    /\ shutdown' = "done"
    /\ metricServer' = IF metricServer = "nil" THEN "nil" ELSE "stopped"
    /\ UNCHANGED <<profileEvaluator, metricChannel, run, cancelled, OutputCh,
                   received, inForce, step>>
    /\ ManagerFrame

\* one iteration of run's loop
Loop ==
    \/ \E opt \in Options : HandleRecv(opt)
    \/ HandleMetric
    \/ \E results \in Mappings(Profiles), err \in BOOLEAN :
           HandleTick(results, err)
    \/ HandleDone

NextManager ==
    \/ Loop
    \/ Receive
    \/ ShutdownCancel
    \/ ShutdownServer
SpecManager == InitManager /\ [][NextManager]_vars

\* the goroutine of run is scheduled, and a select that finds ctx.Done()
\* ready again and again takes it; nothing obliges a consumer to receive
SpecManagerFair ==
    /\ InitManager
    /\ [][NextManager]_vars
    /\ WF_vars(Loop)
    /\ SF_vars(HandleDone)

\* C12: a tick at which Evaluate succeeds and reports transitions sends that
\* mapping on OutputCh: it is being sent, or a consumer has received it.
TransitionsEmitted ==
    (step.event = "tick" /\ step.evaluate /\ ~step.err
        /\ step.results # << >>) =>
        \/ run = "sending" /\ OutputCh = [full |-> TRUE, value |-> step.results]
        \/ run # "sending" /\ received = [full |-> TRUE, value |-> step.results]

\* C16: once a 'set' event was read, also after a 'cleared' event that
\* stopped the metric server, and until Shutdown is called, a metric server
\* is running and run receives from its output channel.
RestartAfterClear ==
    (inForce /\ shutdown = "idle") =>
        (metricServer = "running" /\ metricChannel = "open")

\* C18: while no profiles are in force no iteration of run calls Evaluate or
\* AddValue, and nothing is being sent on OutputCh.
InertWithoutProfiles ==
    /\ (step.event \in {"tick", "metric"} /\ ~step.inForce) =>
           (~step.evaluate /\ ~step.addValue)
    /\ ~inForce => run # "sending"

\* C17: after Shutdown is called the run goroutine eventually returns.
ShutdownTerminates == cancelled ~> (run = "returned")

(***************************************************************************)
(* The root command                                                         *)
(***************************************************************************)
\* the Client and the Manager when only the root command is looked at
InitRoot ==
    /\ New
    /\ certMaterial = 0
    /\ callers = [c \in Callers |-> IdleCaller]
    /\ before = [sig |-> << >>, transport |-> NilTransport]
    /\ rebuildFailed = FALSE
    /\ last = NoCall
    /\ reply = NoReply
    /\ outcome = NoOutcome
    /\ built = NoBuilt
    /\ newCall = ConstructedCall
    /\ ManagerNew
    /\ RootIdle
    /\ profileManagerEnabled \in BOOLEAN

\* what a statement of Run leaves alone
RootFrame ==
    UNCHANGED <<certificateSignature, transport, transportWrappers,
                certMaterial, callers, before, rebuildFailed, last, reply,
                outcome, built, newCall, managerVars, profileManagerEnabled>>

\* Run is still executing
Running == rootPc \notin {"returned", "panicked", "killed"}

\* lines 46 and 49: the deferred calls run when Run returns and when it
\* panics, the last deferred first
Deferred(at, call, to) ==
    /\ rootPc = at
    /\ rootPc' = to
    /\ calls' = Append(calls, call)

\* Run moves on to the statement at `to` having called `call`
Goes(call, to) ==
    /\ rootPc' = to
    /\ calls' = Append(calls, call)

\* a constructor that returns an error makes Run panic: lines 53-56, 59-62
\* and 65-68
Construct(at, call, ok, to) ==
    /\ rootPc = at
    /\ IF ok THEN Goes(call, to) ELSE Goes(call, "panicUndo")
    /\ UNCHANGED <<profileManager, schedulerProfileCh, done>>
    /\ RootFrame

\* lines 45-49
SetupLogger == Construct("setupLogger", "setupLogger", TRUE, "config")
\* line 51
InitConfiguration ==
    Construct("config", "config.InitConfiguration", TRUE, "certManager")
InitCertificateManager(ok) ==
    Construct("certManager", "initCertificateManager", ok, "httpClient")
HttpClientNew(ok) ==
    Construct("httpClient", "httpClient.New", ok, "confManager")
\* line 64
ConfigurationNew ==
    Construct("confManager", "configuration.New", TRUE, "executor")
ExecutorNew(ok) == Construct("executor", "executor.New", ok, "edge")
\* line 70
EdgeNew == Construct("edge", "edge.New", TRUE, "profile")

\* a Run that shuts the profile manager down whatever the flag says
GuardNone(enabled) == TRUE

\* lines 71, 84 and 98: `if profileManagerEnabled`
GuardCreate(enabled) == enabled
GuardStart(enabled) == enabled
GuardShutdown(enabled) == enabled

\* lines 71-74: profile.New when the flag is set
ProfileNew ==
    /\ rootPc = "profile"
    /\ IF GuardCreate(profileManagerEnabled)
       THEN /\ profileManager' = "manager"
            /\ Goes("profile.New", "resources")
       ELSE /\ UNCHANGED <<profileManager, calls>>
            /\ rootPc' = "resources"
    /\ UNCHANGED <<schedulerProfileCh, done>>
    /\ RootFrame

\* line 75
ResourcesNew == Construct("resources", "resources.New", TRUE, "schedulerNew")
\* line 77
SchedulerNew == Construct("schedulerNew", "scheduler.New", TRUE, "context")
\* line 82
WithCancel ==
    Construct("context", "context.WithCancel", TRUE, "startController")

\* line 83
ControllerStart ==
    /\ rootPc = "startController"
    /\ Goes("controller.Start", "startScheduler")
    /\ UNCHANGED <<profileManager, schedulerProfileCh, done>>
    /\ RootFrame

\* lines 84-85 and 88: scheduler.Start, with profileManager.OutputCh or nil;
\* reading the field of a nil profileManager panics
SchedulerStart ==
    /\ rootPc = "startScheduler"
    /\ IF GuardStart(profileManagerEnabled)
       THEN IF profileManager = "nil"
            THEN /\ Goes("profileManager.OutputCh", "panicUndo")
                 /\ UNCHANGED schedulerProfileCh
            ELSE /\ calls' = calls \o <<"profileManager.OutputCh",
                                        "scheduler.Start">>
                 /\ rootPc' = "startProfile"
                 /\ schedulerProfileCh' = "OutputCh"
       ELSE /\ Goes("scheduler.Start", "notify")
            /\ schedulerProfileCh' = "nil"
    /\ UNCHANGED <<profileManager, done>>
    /\ RootFrame

\* line 86
ProfileManagerStart ==
    /\ rootPc = "startProfile"
    /\ Goes("profileManager.Start", "notify")
    /\ UNCHANGED <<profileManager, schedulerProfileCh, done>>
    /\ RootFrame

\* lines 91-92: from here on an interrupt is delivered to the done channel
Notify ==
    /\ rootPc = "notify"
    /\ Goes("signal.Notify", "wait")
    /\ UNCHANGED <<profileManager, schedulerProfileCh, done>>
    /\ RootFrame

\* line 94: <-done
Wait ==
    /\ rootPc = "wait"
    /\ done > 0
    /\ done' = done - 1
    /\ Goes("<-done", "cancel")
    /\ UNCHANGED <<profileManager, schedulerProfileCh>>
    /\ RootFrame

\* line 96
Cancel ==
    /\ rootPc = "cancel"
    /\ Goes("cancel", "shutdownController")
    /\ UNCHANGED <<profileManager, schedulerProfileCh, done>>
    /\ RootFrame

\* line 97
ControllerShutdown ==
    /\ rootPc = "shutdownController"
    /\ Goes("controller.Shutdown", "shutdownProfile")
    /\ UNCHANGED <<profileManager, schedulerProfileCh, done>>
    /\ RootFrame

\* lines 98-100, and the return of Run
ProfileManagerShutdown ==
    /\ rootPc = "shutdownProfile"
    /\ IF GuardShutdown(profileManagerEnabled)
       THEN Goes("profileManager.Shutdown", "undo")
       ELSE rootPc' = "undo" /\ UNCHANGED calls
    /\ UNCHANGED <<profileManager, schedulerProfileCh, done>>
    /\ RootFrame

\* the deferred undo() of line 49 and logger.Sync() of line 46
Undo ==
    /\ \/ Deferred("undo", "undo", "sync")
       \/ Deferred("panicUndo", "undo", "panicSync")
    /\ UNCHANGED <<profileManager, schedulerProfileCh, done>>
    /\ RootFrame
Sync ==
    /\ \/ Deferred("sync", "logger.Sync", "returned")
       \/ Deferred("panicSync", "logger.Sync", "panicked")
    /\ UNCHANGED <<profileManager, schedulerProfileCh, done>>
    /\ RootFrame

\* signal.Notify was called: the statements after line 92
Notified ==
    rootPc \in {"wait", "cancel", "shutdownController", "shutdownProfile",
                "undo", "sync"}

\* an interrupt: before signal.Notify it ends the process; after it, it is
\* put in the done channel unless the channel's one slot is taken
Interrupt ==
    /\ Running
    /\ IF Notified
       THEN /\ done' = 1
            /\ UNCHANGED <<rootPc, calls>>
       ELSE /\ rootPc' = "killed"
            /\ UNCHANGED <<calls, done>>
    /\ UNCHANGED <<profileManager, schedulerProfileCh>>
    /\ RootFrame

\* os.Kill cannot be caught: it ends the process wherever Run is
Kill ==
    /\ Running
    /\ rootPc' = "killed"
    /\ UNCHANGED <<calls, profileManager, schedulerProfileCh, done>>
    /\ RootFrame

NextRoot ==
    \/ SetupLogger
    \/ InitConfiguration
    \/ \E ok \in BOOLEAN : InitCertificateManager(ok)
    \/ \E ok \in BOOLEAN : HttpClientNew(ok)
    \/ ConfigurationNew
    \/ \E ok \in BOOLEAN : ExecutorNew(ok)
    \/ EdgeNew
    \/ ProfileNew
    \/ ResourcesNew
    \/ SchedulerNew
    \/ WithCancel
    \/ ControllerStart
    \/ SchedulerStart
    \/ ProfileManagerStart
    \/ Notify
    \/ Wait
    \/ Cancel
    \/ ControllerShutdown
    \/ ProfileManagerShutdown
    \/ Undo
    \/ Sync
    \/ Interrupt
    \/ Kill
SpecRoot == InitRoot /\ [][NextRoot]_vars

\* Run has called `call`
Called(call) == \E i \in 1..Len(calls) : calls[i] = call
\* every call of `second` comes after a call of `first`, and none before one
Precedes(first, second) ==
    \A j \in 1..Len(calls) :
        calls[j] = second =>
            /\ \E i \in 1..(j - 1) : calls[i] = first
            /\ \A i \in (j + 1)..Len(calls) : calls[i] # first

\* C19: the controller is started before the scheduler and the scheduler
\* before the profile manager; the context is cancelled on an interrupt,
\* before the controller is shut down, and the controller before the profile
\* manager; with the flag disabled the profile manager is never created,
\* started, shut down or dereferenced and the scheduler gets no profile
\* channel.
StartStopOrdering ==
    /\ Precedes("controller.Start", "scheduler.Start")
    /\ Precedes("scheduler.Start", "profileManager.Start")
    /\ Precedes("<-done", "cancel")
    /\ Precedes("cancel", "controller.Shutdown")
    /\ Precedes("controller.Shutdown", "profileManager.Shutdown")
    /\ rootPc = "returned" =>
           /\ Called("controller.Start") /\ Called("scheduler.Start")
           /\ Called("cancel") /\ Called("controller.Shutdown")
           /\ profileManagerEnabled =>
                  (Called("profileManager.Start")
                      /\ Called("profileManager.Shutdown"))
    /\ ~profileManagerEnabled =>
           /\ profileManager = "nil"
           /\ ~Called("profile.New")
           /\ ~Called("profileManager.OutputCh")
           /\ ~Called("profileManager.Start")
           /\ ~Called("profileManager.Shutdown")
           /\ schedulerProfileCh \in {"unset", "nil"}
           /\ Called("scheduler.Start") => schedulerProfileCh = "nil"
    /\ (profileManagerEnabled /\ Called("scheduler.Start")) =>
           schedulerProfileCh = "OutputCh"

\* Run has returned after an interrupt, with the flag disabled
StartStopOrderingWitness ==
    /\ rootPc = "returned"
    /\ ~profileManagerEnabled
    /\ Called("scheduler.Start")
    /\ Called("controller.Shutdown")
    /\ schedulerProfileCh = "nil"

====
